---------------------------- MODULE Spec2Model ----------------------------
(***************************************************************************)
(* Model of aws-janitor/resources/route53.go: the Route53 record-set       *)
(* handler of the janitor (zoneIsManaged, resourceRecordSetIsManaged,      *)
(* route53ResourceRecordSetsForZone, MarkAndSweep, ListAll, ARN).          *)
(*                                                                         *)
(* Strings that the code takes apart or concatenates (record names, record *)
(* types, zone ids, resource keys) are sequences of one-character strings. *)
(* Zone names are only compared for equality and are plain strings.        *)
(***************************************************************************)
EXTENDS Integers, Sequences, FiniteSets, TLC

(***************************************************************************)
(* Bounds of the model.                                                    *)
(***************************************************************************)
\* the clock runs from 0 to MaxTime
MaxTime == 2
\* retention threshold of the tracker (the ttl the Set was built with)
TTL == 0

(***************************************************************************)
(* Characters and literals.                                                *)
(***************************************************************************)
Digit == {"0","1","2","3","4","5","6","7","8","9"}

Lower == {"a","b","c","d","e","f","g","h","i","j","k","l","m","n","o","p",
          "q","r","s","t","u","v","w","x","y","z"}

\* [0-9a-z]
AlnumLower == Digit \cup Lower

\* [0-9a-f]
HexLower == Digit \cup {"a","b","c","d","e","f"}

\* the literal "test-cncf-aws.k8s.io." compared in zoneIsManaged
ManagedZoneName == "test-cncf-aws.k8s.io."

\* the literal "A" compared in resourceRecordSetIsManaged
TypeA == <<"A">>

TypeCNAME == <<"C","N","A","M","E">>

\* "route53::"
ARNPrefix == <<"r","o","u","t","e","5","3",":",":">>

\* "::"
ARNSep == <<":",":">>

\* Limit of 1000 changes per request
ChunkLimit == 1000

(***************************************************************************)
(* Regular expressions.  A regexp is a sequence of items; an item matches  *)
(* between min and max characters of the class cls.  All four managed-name *)
(* regexps are anchored at the start (^) and open at the end.              *)
(***************************************************************************)
Lit(s) == [i \in 1..Len(s) |-> [cls |-> {s[i]}, min |-> 1, max |-> 1]]

Rep(c, lo, hi) == <<[cls |-> c, min |-> lo, max |-> hi]>>

\* e2e-[0-9a-z]{1,10}-[0-9a-f]{5}\.   (the tail shared by the four regexps)
ClusterTail == Lit(<<"e","2","e","-">>) \o Rep(AlnumLower, 1, 10) \o Lit(<<"-">>)
                 \o Rep(HexLower, 5, 5) \o Lit(<<".">>)

managedNameRegexes ==
  << \* ^api\.e2e-[0-9a-z]{1,10}-[0-9a-f]{5}\.
     Lit(<<"a","p","i",".">>) \o ClusterTail,
     \* ^api\.internal\.e2e-[0-9a-z]{1,10}-[0-9a-f]{5}\.
     Lit(<<"a","p","i",".","i","n","t","e","r","n","a","l",".">>) \o ClusterTail,
     \* ^etcd-[a-z]\.internal\.e2e-[0-9a-z]{1,10}-[0-9a-f]{5}\.
     Lit(<<"e","t","c","d","-">>) \o Rep(Lower, 1, 1)
       \o Lit(<<".","i","n","t","e","r","n","a","l",".">>) \o ClusterTail,
     \* ^etcd-events-[a-z]\.internal\.e2e-[0-9a-z]{1,10}-[0-9a-f]{5}\.
     Lit(<<"e","t","c","d","-","e","v","e","n","t","s","-">>) \o Rep(Lower, 1, 1)
       \o Lit(<<".","i","n","t","e","r","n","a","l",".">>) \o ClusterTail >>

RECURSIVE MatchAt(_, _, _, _)
\* items i.. of re match a prefix of s starting at position p
MatchAt(re, i, s, p) ==
  IF i > Len(re) THEN TRUE
  ELSE \E k \in re[i].min..re[i].max :
         /\ p + k - 1 <= Len(s)
         /\ \A j \in p..(p + k - 1) : s[j] \in re[i].cls
         /\ MatchAt(re, i + 1, s, p + k)

\* regexp.MatchString for a regexp anchored with ^
MatchString(re, s) == MatchAt(re, 1, s, 1)

(***************************************************************************)
(* The filters.                                                            *)
(***************************************************************************)
\* zoneIsManaged accepting every zone under the managed domain
zoneIsManaged_Suffix(z) ==
  z.Name \in {ManagedZoneName, "x.test-cncf-aws.k8s.io."}

\* zoneIsManaged checks if the zone should be managed by us
zoneIsManaged(z) == ManagedZoneName = z.Name

\* resourceRecordSetIsManaged without the check of the record type
resourceRecordSetIsManaged_AnyType(rrs) ==
  \E n \in 1..Len(managedNameRegexes) :
    MatchString(managedNameRegexes[n], rrs.Name)

\* resourceRecordSetIsManaged checks if the record should be managed by us
resourceRecordSetIsManaged(rrs) ==
  IF TypeA # rrs.Type THEN FALSE
  ELSE \E n \in 1..Len(managedNameRegexes) :
         MatchString(managedNameRegexes[n], rrs.Name)

\* ARN leaving out the record type
ARN_NoType(r) == ARNPrefix \o r.zone.Id \o ARNSep \o r.obj.Name

\* route53ResourceRecordSet.ARN
ARN(r) == ARNPrefix \o r.zone.Id \o ARNSep \o r.obj.Type \o ARNSep \o r.obj.Name

\* route53ResourceRecordSet.ResourceKey
ResourceKey(r) == ARN(r)

(***************************************************************************)
(* The provider's contents: hosted zones (in listing pages) and, per zone, *)
(* resource record sets (in listing pages).                                *)
(***************************************************************************)
Z1 == <<"Z","1">>

Z2 == <<"Z","2">>

Z3 == <<"Z","3">>

ZoneIds == {Z1, Z2, Z3}

HostedZone(id, name) == [Id |-> id, Name |-> name]

\* api.e2e-k8-0a1b2.io.
NameApi == <<"a","p","i",".","e","2","e","-","k","8","-","0","a","1","b","2",".","i","o",".">>

\* etcd-b.internal.e2e-k8-0a1b2.io.
NameEtcd == <<"e","t","c","d","-","b",".","i","n","t","e","r","n","a","l",".",
              "e","2","e","-","k","8","-","0","a","1","b","2",".","i","o",".">>

\* www.test-cncf-aws.k8s.io.
NameWww == <<"w","w","w",".","t","e","s","t","-","c","n","c","f","-","a","w","s",
             ".","k","8","s",".","i","o",".">>

\* api.unrelated.example.com.
NameUnrelated == <<"a","p","i",".","u","n","r","e","l","a","t","e","d",".",
                   "e","x","a","m","p","l","e",".","c","o","m",".">>

ResourceRecordSet(type, name) == [Type |-> type, Name |-> name]

rrsApi == ResourceRecordSet(TypeA, NameApi)

rrsEtcd == ResourceRecordSet(TypeA, NameEtcd)

rrsWww == ResourceRecordSet(TypeA, NameWww)

rrsCname == ResourceRecordSet(TypeCNAME, NameApi)

rrsUnrelated == ResourceRecordSet(TypeA, NameUnrelated)

\* the hosted-zone listings the model starts from: two pages, three zones
ZoneLayouts ==
  { << <<HostedZone(Z1, n1), HostedZone(Z2, n2)>>, <<HostedZone(Z3, n3)>> >> :
      n1 \in {ManagedZoneName, "test-cncf-aws.k8s.io"},
      n2 \in {ManagedZoneName, "x.test-cncf-aws.k8s.io."},
      n3 \in {ManagedZoneName, "test-cncf-aws.k8s.io"} }

\* a record listing of two pages, of one page, and an empty one (a listing
\* has at least one page)
TwoPages == << <<rrsApi, rrsWww>>, <<rrsCname, rrsEtcd>> >>

OnePage == << <<rrsCname, rrsUnrelated, rrsEtcd>> >>

EmptyPage == << <<>> >>

\* the record listings the model starts from
RecordLayouts ==
  { [id \in ZoneIds |-> IF id = Z1 THEN l1 ELSE IF id = Z2 THEN l2 ELSE OnePage] :
      l1 \in {TwoPages, EmptyPage}, l2 \in {TwoPages, OnePage} }

\* all zones of a hosted-zone listing, in iteration order
RECURSIVE Flatten(_)
Flatten(pages) ==
  IF pages = <<>> THEN <<>> ELSE Head(pages) \o Flatten(Tail(pages))

Range(seq) == {seq[i] : i \in 1..Len(seq)}

(***************************************************************************)
(* Errors.  A provider error names the call that failed; Wrapf adds a      *)
(* context message on top and maps nil to nil.                             *)
(***************************************************************************)
Nil == [call |-> "nil", zone |-> <<>>, wrap |-> <<>>]

\* the error ListHostedZonesPages returns when fetching a page fails
ListHostedZonesError == [call |-> "ListHostedZones", zone |-> <<>>, wrap |-> <<>>]

\* the error ListResourceRecordSetsPages returns when fetching a page fails
ListResourceRecordSetsError(id) ==
  [call |-> "ListResourceRecordSets", zone |-> id, wrap |-> <<>>]

\* errors.Wrapf
Wrapf(e, msg) == IF e = Nil THEN Nil ELSE [e EXCEPT !.wrap = <<msg>> \o @]

\* the Options of a call (the session is not modelled)
Options(dry) == [Account |-> "acct", Region |-> "us-east-1", DryRun |-> dry]

(***************************************************************************)
(* The tracker Set.                                                        *)
(***************************************************************************)
\* NewSet
NewSet == [firstSeen |-> <<>>]

\* Set.Mark: records first-seen if absent; reports whether the resource has
\* aged past the retention threshold.  Yields the new set and the result.
Mark(s, key, t) ==
  IF key \in DOMAIN s.firstSeen
    THEN [set |-> s, result |-> (t - s.firstSeen[key] > TTL)]
    ELSE [set |-> [s EXCEPT !.firstSeen = (key :> t) @@ @], result |-> FALSE]

(***************************************************************************)
(* The calls made, in order (history of one invocation).                   *)
(***************************************************************************)
NoObj == [Type |-> <<>>, Name |-> <<>>]

Event(op, zone, page, obj, key, chunk, ok) ==
  [op |-> op, zone |-> zone, page |-> page, obj |-> obj, key |-> key,
   chunk |-> chunk, ok |-> ok]

\* svc.ListHostedZonesPages fetched (or failed to fetch) page p
EvListZones(p, ok) == Event("ListHostedZones", <<>>, p, NoObj, <<>>, <<>>, ok)

\* svc.ListResourceRecordSetsPages fetched (or failed to fetch) page p of zone
EvListRecords(zone, p, ok) ==
  Event("ListResourceRecordSets", zone, p, NoObj, <<>>, <<>>, ok)

\* set.Mark(o, nil) was called and returned res
EvMark(o, res) == Event("Mark", o.zone.Id, 0, o.obj, ResourceKey(o), <<>>, res)

\* svc.ChangeResourceRecordSets was called with chunk
EvChange(zone, chunk, ok) ==
  Event("ChangeResourceRecordSets", zone, 0, NoObj, <<>>, chunk, ok)

\* set.firstSeen[arn] = now in ListAll
EvSeen(o) == Event("firstSeen", o.zone.Id, 0, o.obj, ResourceKey(o), <<>>, TRUE)

VARIABLES
  hostedZones,   \* provider: pages of hosted zones
  recordSets,    \* provider: zone id -> pages of resource record sets
  now,           \* the clock (time.Now)
  set,           \* the tracker Set handed to MarkAndSweep
  pc,            \* position of the running call
  opts,          \* Options of the running call
  zp,            \* number of hosted-zone pages fetched
  zi,            \* index of the zone of the current page being processed
  rp,            \* number of record pages of the current zone fetched
  toDelete,      \* route53ResourceRecordSetsForZone: var toDelete
  changes,       \* MarkAndSweep: var changes
  listError,     \* MarkAndSweep: var listError
  rrsErr,        \* ListAll: var rrsErr
  err,           \* result of svc.ListHostedZonesPages
  listAllSet,    \* ListAll: set := NewSet(0)
  ret,           \* the error the call returned
  trace          \* calls made by the running call so far

vars == <<hostedZones, recordSets, now, set, pc, opts, zp, zi, rp, toDelete,
          changes, listError, rrsErr, err, listAllSet, ret, trace>>

provider == <<hostedZones, recordSets>>

locals == <<zp, zi, rp, toDelete, changes, listError, rrsErr, err, listAllSet, ret>>

\* the zone the page function is looking at
CurZone == hostedZones[zp][zi]

Init ==
  /\ hostedZones \in ZoneLayouts
  /\ recordSets \in RecordLayouts
  /\ now = 0
  /\ set = NewSet
  /\ pc = "idle"
  /\ opts = Options(FALSE)
  /\ zp = 0 /\ zi = 0 /\ rp = 0
  /\ toDelete = <<>> /\ changes = <<>>
  /\ listError = Nil /\ rrsErr = Nil /\ err = Nil /\ ret = Nil
  /\ listAllSet = NewSet
  /\ trace = <<>>

\* time passes
Tick ==
  /\ now < MaxTime
  /\ now' = now + 1
  /\ UNCHANGED <<provider, set, pc, opts, locals, trace>>

(***************************************************************************)
(* MarkAndSweep                                                            *)
(***************************************************************************)
\* the call: opts and set are the arguments, the locals start at zero values
\* (a call starts when no call is running)
MarkAndSweep ==
  /\ pc \in {"idle", "ms_done", "la_done"}
  /\ \E dry \in BOOLEAN : opts' = Options(dry)
  /\ pc' = "ms_zones"
  /\ zp' = 0 /\ zi' = 0 /\ rp' = 0
  /\ toDelete' = <<>> /\ changes' = <<>>
  /\ listError' = Nil /\ rrsErr' = Nil /\ err' = Nil /\ ret' = Nil
  /\ listAllSet' = NewSet
  /\ trace' = <<>>
  /\ UNCHANGED <<provider, now, set>>

\* ListHostedZonesPages fetching a page again after a failed fetch
MS_ListHostedZonesPages_Retry ==
  /\ pc = "ms_zones"
  /\ IF zp = Len(hostedZones)
       THEN /\ pc' = "ms_return"
            /\ UNCHANGED <<zp, zi, err, trace>>
       ELSE \E ok \in BOOLEAN :
              /\ trace' = Append(trace, EvListZones(zp + 1, ok))
              /\ IF ok
                   THEN /\ zp' = zp + 1 /\ zi' = 1 /\ pc' = "ms_pageFunc"
                        /\ UNCHANGED err
                   ELSE /\ err' = ListHostedZonesError /\ pc' = "ms_zones"
                        /\ UNCHANGED <<zp, zi>>
  /\ UNCHANGED <<provider, now, set, opts, rp, toDelete, changes, listError,
                 rrsErr, listAllSet, ret>>

\* svc.ListHostedZonesPages(..., pageFunc): fetch the next page of zones and
\* hand it to pageFunc; a failed fetch ends the listing with an error
MS_ListHostedZonesPages ==
  /\ pc = "ms_zones"
  /\ IF zp = Len(hostedZones)
       THEN /\ pc' = "ms_return"
            /\ UNCHANGED <<zp, zi, err, trace>>
       ELSE \E ok \in BOOLEAN :
              /\ trace' = Append(trace, EvListZones(zp + 1, ok))
              /\ IF ok
                   THEN /\ zp' = zp + 1 /\ zi' = 1 /\ pc' = "ms_pageFunc"
                        /\ UNCHANGED err
                   ELSE /\ err' = ListHostedZonesError /\ pc' = "ms_return"
                        /\ UNCHANGED <<zp, zi>>
  /\ UNCHANGED <<provider, now, set, opts, rp, toDelete, changes, listError,
                 rrsErr, listAllSet, ret>>

\* pageFunc testing opts.DryRun before the record listing: a dry run skips
\* the zone without listing or marking its records
MS_pageFunc_DryRunFirst ==
  /\ pc = "ms_pageFunc"
  /\ IF zi > Len(hostedZones[zp])
       THEN /\ pc' = "ms_zones"
            /\ UNCHANGED <<zi, rp, toDelete>>
       ELSE IF ~zoneIsManaged(CurZone) \/ opts.DryRun
         THEN /\ zi' = zi + 1
              /\ UNCHANGED <<pc, rp, toDelete>>
         ELSE /\ pc' = "ms_records" /\ rp' = 0 /\ toDelete' = <<>>
              /\ UNCHANGED zi
  /\ UNCHANGED <<provider, now, set, opts, zp, changes, listError, rrsErr, err,
                 listAllSet, ret, trace>>

\* pageFunc: for _, z := range zones.HostedZones -- skip unmanaged zones,
\* call route53ResourceRecordSetsForZone for a managed one; return true
\* after the last zone of the page
MS_pageFunc ==
  /\ pc = "ms_pageFunc"
  /\ IF zi > Len(hostedZones[zp])
       THEN /\ pc' = "ms_zones"
            /\ UNCHANGED <<zi, rp, toDelete>>
       ELSE IF ~zoneIsManaged(CurZone)
         THEN /\ zi' = zi + 1
              /\ UNCHANGED <<pc, rp, toDelete>>
         ELSE /\ pc' = "ms_records" /\ rp' = 0 /\ toDelete' = <<>>
              /\ UNCHANGED zi
  /\ UNCHANGED <<provider, now, set, opts, zp, changes, listError, rrsErr, err,
                 listAllSet, ret, trace>>

RECURSIVE recordsPageFunc(_, _, _, _, _)
\* recordsPageFunc over records i.. of a page: mark every managed record.
\* st carries the set, toDelete and the trace.
recordsPageFunc(records, i, zone, t, st) ==
  IF i > Len(records) THEN st
  ELSE LET rrs == records[i]
           o == [zone |-> zone, obj |-> rrs]
           m == Mark(st.set, ResourceKey(o), t)
       IN IF ~resourceRecordSetIsManaged(rrs)
            THEN recordsPageFunc(records, i + 1, zone, t, st)
            ELSE recordsPageFunc(records, i + 1, zone, t,
                   [set |-> m.set,
                    \* a true Mark is only logged ("deleting ...")
                    toDelete |-> st.toDelete,
                    trace |-> Append(st.trace, EvMark(o, m.result))])

\* changes built from toDelete (Action: DELETE, ResourceRecordSet: rrs.obj)
ChangesFor(td) == [i \in 1..Len(td) |-> td[i].obj]

\* route53ResourceRecordSetsForZone where pageFunc goes on to the next zone
\* after a failed record listing (continue instead of return false)
route53ResourceRecordSetsForZone_Continue ==
  /\ pc = "ms_records"
  /\ LET z == CurZone
         pages == recordSets[z.Id]
     IN IF rp = Len(pages)
          THEN /\ IF opts.DryRun
                    THEN /\ zi' = zi + 1 /\ pc' = "ms_pageFunc"
                         /\ UNCHANGED changes
                    ELSE /\ changes' = ChangesFor(toDelete) /\ pc' = "ms_chunks"
                         /\ UNCHANGED zi
               /\ UNCHANGED <<rp, toDelete, listError, set, trace>>
          ELSE \E ok \in BOOLEAN :
                 IF ok
                   THEN LET st == recordsPageFunc(pages[rp + 1], 1, z, now,
                                    [set |-> set, toDelete |-> toDelete,
                                     trace |-> Append(trace,
                                                 EvListRecords(z.Id, rp + 1, TRUE))])
                        IN /\ set' = st.set
                           /\ toDelete' = st.toDelete
                           /\ trace' = st.trace
                           /\ rp' = rp + 1
                           /\ UNCHANGED <<pc, zi, changes, listError>>
                   ELSE /\ listError' = ListResourceRecordSetsError(z.Id)
                        /\ trace' = Append(trace, EvListRecords(z.Id, rp + 1, FALSE))
                        /\ toDelete' = <<>>
                        /\ zi' = zi + 1 /\ pc' = "ms_pageFunc"
                        /\ UNCHANGED <<rp, changes, set>>
  /\ UNCHANGED <<provider, now, opts, zp, rrsErr, err, listAllSet, ret>>

\* route53ResourceRecordSetsForZone where recordsPageFunc stops the listing
\* after the first page of records (return false instead of return true)
route53ResourceRecordSetsForZone_FirstPage ==
  /\ pc = "ms_records"
  /\ LET z == CurZone
         pages == recordSets[z.Id]
     IN IF rp = Len(pages) \/ rp = 1
          THEN /\ IF opts.DryRun
                    THEN /\ zi' = zi + 1 /\ pc' = "ms_pageFunc"
                         /\ UNCHANGED changes
                    ELSE /\ changes' = ChangesFor(toDelete) /\ pc' = "ms_chunks"
                         /\ UNCHANGED zi
               /\ UNCHANGED <<rp, toDelete, listError, set, trace>>
          ELSE \E ok \in BOOLEAN :
                 IF ok
                   THEN LET st == recordsPageFunc(pages[rp + 1], 1, z, now,
                                    [set |-> set, toDelete |-> toDelete,
                                     trace |-> Append(trace,
                                                 EvListRecords(z.Id, rp + 1, TRUE))])
                        IN /\ set' = st.set
                           /\ toDelete' = st.toDelete
                           /\ trace' = st.trace
                           /\ rp' = rp + 1
                           /\ UNCHANGED <<pc, zi, changes, listError>>
                   ELSE /\ listError' = ListResourceRecordSetsError(z.Id)
                        /\ trace' = Append(trace, EvListRecords(z.Id, rp + 1, FALSE))
                        /\ toDelete' = <<>>
                        /\ pc' = "ms_return"
                        /\ UNCHANGED <<rp, zi, changes, set>>
  /\ UNCHANGED <<provider, now, opts, zp, rrsErr, err, listAllSet, ret>>

\* route53ResourceRecordSetsForZone where a dry run lists the records but
\* does not mark them
route53ResourceRecordSetsForZone_DryNoMark ==
  /\ pc = "ms_records"
  /\ LET z == CurZone
         pages == recordSets[z.Id]
     IN IF rp = Len(pages)
          THEN /\ IF opts.DryRun
                    THEN /\ zi' = zi + 1 /\ pc' = "ms_pageFunc"
                         /\ UNCHANGED changes
                    ELSE /\ changes' = ChangesFor(toDelete) /\ pc' = "ms_chunks"
                         /\ UNCHANGED zi
               /\ UNCHANGED <<rp, toDelete, listError, set, trace>>
          ELSE \E ok \in BOOLEAN :
                 IF ok
                   THEN LET st == recordsPageFunc(
                                    IF opts.DryRun THEN <<>> ELSE pages[rp + 1],
                                    1, z, now,
                                    [set |-> set, toDelete |-> toDelete,
                                     trace |-> Append(trace,
                                                 EvListRecords(z.Id, rp + 1, TRUE))])
                        IN /\ set' = st.set
                           /\ toDelete' = st.toDelete
                           /\ trace' = st.trace
                           /\ rp' = rp + 1
                           /\ UNCHANGED <<pc, zi, changes, listError>>
                   ELSE /\ listError' = ListResourceRecordSetsError(z.Id)
                        /\ trace' = Append(trace, EvListRecords(z.Id, rp + 1, FALSE))
                        /\ toDelete' = <<>>
                        /\ pc' = "ms_return"
                        /\ UNCHANGED <<rp, zi, changes, set>>
  /\ UNCHANGED <<provider, now, opts, zp, rrsErr, err, listAllSet, ret>>

\* route53ResourceRecordSetsForZone where a failed fetch also removes the
\* zone's records from the tracker
route53ResourceRecordSetsForZone_Rollback ==
  /\ pc = "ms_records"
  /\ LET z == CurZone
         pages == recordSets[z.Id]
     IN IF rp = Len(pages)
          THEN /\ IF opts.DryRun
                    THEN /\ zi' = zi + 1 /\ pc' = "ms_pageFunc"
                         /\ UNCHANGED changes
                    ELSE /\ changes' = ChangesFor(toDelete) /\ pc' = "ms_chunks"
                         /\ UNCHANGED zi
               /\ UNCHANGED <<rp, toDelete, listError, set, trace>>
          ELSE \E ok \in BOOLEAN :
                 IF ok
                   THEN LET st == recordsPageFunc(pages[rp + 1], 1, z, now,
                                    [set |-> set, toDelete |-> toDelete,
                                     trace |-> Append(trace,
                                                 EvListRecords(z.Id, rp + 1, TRUE))])
                        IN /\ set' = st.set
                           /\ toDelete' = st.toDelete
                           /\ trace' = st.trace
                           /\ rp' = rp + 1
                           /\ UNCHANGED <<pc, zi, changes, listError>>
                   ELSE /\ listError' = ListResourceRecordSetsError(z.Id)
                        /\ trace' = Append(trace, EvListRecords(z.Id, rp + 1, FALSE))
                        /\ toDelete' = <<>>
                        /\ pc' = "ms_return"
                        /\ set' = [set EXCEPT !.firstSeen =
                                    [k \in DOMAIN set.firstSeen \
                                       {ARN([zone |-> z, obj |-> r]) :
                                          r \in UNION {Range(pages[p]) : p \in 1..Len(pages)}}
                                     |-> set.firstSeen[k]]]
                        /\ UNCHANGED <<rp, zi, changes>>
  /\ UNCHANGED <<provider, now, opts, zp, rrsErr, err, listAllSet, ret>>

\* route53ResourceRecordSetsForZone and the lines of pageFunc after it
\* returns: fetch the next page of records of the zone and run
\* recordsPageFunc on it; a failed fetch returns (nil, err), which sets
\* listError and makes pageFunc return false; after the last page toDelete
\* is returned, and pageFunc continues (dry run) or builds the changes
route53ResourceRecordSetsForZone ==
  /\ pc = "ms_records"
  /\ LET z == CurZone
         pages == recordSets[z.Id]
     IN IF rp = Len(pages)
          THEN /\ IF opts.DryRun
                    THEN /\ zi' = zi + 1 /\ pc' = "ms_pageFunc"
                         /\ UNCHANGED changes
                    ELSE /\ changes' = ChangesFor(toDelete) /\ pc' = "ms_chunks"
                         /\ UNCHANGED zi
               /\ UNCHANGED <<rp, toDelete, listError, set, trace>>
          ELSE \E ok \in BOOLEAN :
                 IF ok
                   THEN LET st == recordsPageFunc(pages[rp + 1], 1, z, now,
                                    [set |-> set, toDelete |-> toDelete,
                                     trace |-> Append(trace,
                                                 EvListRecords(z.Id, rp + 1, TRUE))])
                        IN /\ set' = st.set
                           /\ toDelete' = st.toDelete
                           /\ trace' = st.trace
                           /\ rp' = rp + 1
                           /\ UNCHANGED <<pc, zi, changes, listError>>
                   ELSE /\ listError' = ListResourceRecordSetsError(z.Id)
                        /\ trace' = Append(trace, EvListRecords(z.Id, rp + 1, FALSE))
                        /\ toDelete' = <<>>
                        /\ pc' = "ms_return"
                        /\ UNCHANGED <<rp, zi, changes, set>>
  /\ UNCHANGED <<provider, now, opts, zp, rrsErr, err, listAllSet, ret>>

\* the record sets of a listing without those of a successful change batch
RemoveRecords(pages, chunk) ==
  [p \in 1..Len(pages) |-> SelectSeq(pages[p], LAMBDA r : r \notin Range(chunk))]

\* for len(changes) != 0: cut a chunk of at most 1000 changes and submit it;
\* a failed request is only logged.  With no changes left the zone is done.
MS_chunkLoop ==
  /\ pc = "ms_chunks"
  /\ IF Len(changes) # 0
       THEN LET chunk == IF Len(changes) > ChunkLimit
                           THEN SubSeq(changes, 1, ChunkLimit) ELSE changes
                rest == IF Len(changes) > ChunkLimit
                          THEN SubSeq(changes, ChunkLimit + 1, Len(changes))
                          ELSE <<>>
            IN \E ok \in BOOLEAN :
                 /\ changes' = rest
                 /\ trace' = Append(trace, EvChange(CurZone.Id, chunk, ok))
                 /\ recordSets' =
                      IF ok THEN [recordSets EXCEPT ![CurZone.Id] =
                                    RemoveRecords(@, chunk)]
                      ELSE recordSets
                 /\ UNCHANGED <<pc, zi>>
       ELSE /\ zi' = zi + 1 /\ pc' = "ms_pageFunc"
            /\ UNCHANGED <<changes, trace, recordSets>>
  /\ UNCHANGED <<hostedZones, now, set, opts, zp, rp, toDelete, listError,
                 rrsErr, err, listAllSet, ret>>

\* the value MarkAndSweep would return if it tested listError only
MS_result_IgnoresErr(le, e) == le

\* the value MarkAndSweep returns
MS_result(le, e) == IF le # Nil THEN le ELSE IF e # Nil THEN e ELSE Nil

\* if listError != nil { return listError }; if err != nil { return err }
MS_return ==
  /\ pc = "ms_return"
  /\ ret' = MS_result(listError, err)
  /\ pc' = "ms_done"
  /\ UNCHANGED <<provider, now, set, opts, zp, zi, rp, toDelete, changes,
                 listError, rrsErr, err, listAllSet, trace>>

(***************************************************************************)
(* ListAll                                                                 *)
(***************************************************************************)
\* the call: set := NewSet(0); var rrsErr error
ListAll ==
  /\ pc \in {"idle", "ms_done", "la_done"}
  /\ \E dry \in BOOLEAN : opts' = Options(dry)
  /\ pc' = "la_zones"
  /\ zp' = 0 /\ zi' = 0 /\ rp' = 0
  /\ toDelete' = <<>> /\ changes' = <<>>
  /\ listAllSet' = NewSet
  /\ listError' = Nil /\ rrsErr' = Nil /\ err' = Nil /\ ret' = Nil
  /\ trace' = <<>>
  /\ UNCHANGED <<provider, now, set>>

\* err := svc.ListHostedZonesPages(..., func): fetch the next page of zones
LA_ListHostedZonesPages ==
  /\ pc = "la_zones"
  /\ IF zp = Len(hostedZones)
       THEN /\ pc' = "la_return"
            /\ UNCHANGED <<zp, zi, err, trace>>
       ELSE \E ok \in BOOLEAN :
              /\ trace' = Append(trace, EvListZones(zp + 1, ok))
              /\ IF ok
                   THEN /\ zp' = zp + 1 /\ zi' = 1 /\ pc' = "la_pageFunc"
                        /\ UNCHANGED err
                   ELSE /\ err' = ListHostedZonesError /\ pc' = "la_return"
                        /\ UNCHANGED <<zp, zi>>
  /\ UNCHANGED <<provider, now, set, opts, rp, toDelete, changes, listError,
                 rrsErr, listAllSet, ret>>

\* the zone page function of ListAll: skip unmanaged zones, list the record
\* sets of a managed one; return true after the last zone of the page
LA_pageFunc ==
  /\ pc = "la_pageFunc"
  /\ IF zi > Len(hostedZones[zp])
       THEN /\ pc' = "la_zones"
            /\ UNCHANGED <<zi, rp>>
       ELSE IF ~zoneIsManaged(CurZone)
         THEN /\ zi' = zi + 1
              /\ UNCHANGED <<pc, rp>>
         ELSE /\ pc' = "la_records" /\ rp' = 0
              /\ UNCHANGED zi
  /\ UNCHANGED <<provider, now, set, opts, zp, toDelete, changes, listError,
                 rrsErr, err, listAllSet, ret, trace>>

RECURSIVE LA_recordSetsFunc_Filtered(_, _, _, _, _)
\* the record page function of ListAll applying the record filter
LA_recordSetsFunc_Filtered(records, i, zone, t, st) ==
  IF i > Len(records) THEN st
  ELSE LET o == [zone |-> zone, obj |-> records[i]]
           arn == ARN(o)
       IN IF ~resourceRecordSetIsManaged(records[i])
            THEN LA_recordSetsFunc_Filtered(records, i + 1, zone, t, st)
            ELSE LA_recordSetsFunc_Filtered(records, i + 1, zone, t,
                   [set |-> [st.set EXCEPT !.firstSeen =
                               (arn :> t) @@ [k \in DOMAIN @ \ {arn} |-> @[k]]],
                    trace |-> Append(st.trace, EvSeen(o))])

RECURSIVE LA_recordSetsFunc(_, _, _, _, _)
\* the record page function of ListAll over records i.. of a page:
\* set.firstSeen[arn] = now for every record set
LA_recordSetsFunc(records, i, zone, t, st) ==
  IF i > Len(records) THEN st
  ELSE LET o == [zone |-> zone, obj |-> records[i]]
           arn == ARN(o)
       IN LA_recordSetsFunc(records, i + 1, zone, t,
            [set |-> [st.set EXCEPT !.firstSeen =
                        (arn :> t) @@ [k \in DOMAIN @ \ {arn} |-> @[k]]],
             trace |-> Append(st.trace, EvSeen(o))])

\* ListResourceRecordSetsPages in ListAll where the page function stops the
\* listing after the first page of records
LA_ListResourceRecordSetsPages_FirstPage ==
  /\ pc = "la_records"
  /\ LET z == CurZone
         pages == recordSets[z.Id]
     IN IF rp = Len(pages) \/ rp = 1
          THEN /\ zi' = zi + 1 /\ pc' = "la_pageFunc"
               /\ UNCHANGED <<rp, rrsErr, listAllSet, trace>>
          ELSE \E ok \in BOOLEAN :
                 IF ok
                   THEN LET st == LA_recordSetsFunc(pages[rp + 1], 1, z, now,
                                    [set |-> listAllSet,
                                     trace |-> Append(trace,
                                                 EvListRecords(z.Id, rp + 1, TRUE))])
                        IN /\ listAllSet' = st.set
                           /\ trace' = st.trace
                           /\ rp' = rp + 1
                           /\ UNCHANGED <<pc, zi, rrsErr>>
                   ELSE /\ rrsErr' = Wrapf(ListResourceRecordSetsError(z.Id),
                                       [text |-> "couldn't describe route53 resources",
                                        account |-> opts.Account,
                                        region |-> opts.Region, zone |-> z.Id])
                        /\ trace' = Append(trace, EvListRecords(z.Id, rp + 1, FALSE))
                        /\ pc' = "la_return"
                        /\ UNCHANGED <<rp, zi, listAllSet>>
  /\ UNCHANGED <<provider, now, set, opts, zp, toDelete, changes, listError,
                 err, ret>>

\* svc.ListResourceRecordSetsPages(inp, func) in ListAll: fetch the next
\* page of records of the zone; a failed fetch sets the wrapped rrsErr and
\* makes the zone page function return false
LA_ListResourceRecordSetsPages ==
  /\ pc = "la_records"
  /\ LET z == CurZone
         pages == recordSets[z.Id]
     IN IF rp = Len(pages)
          THEN /\ zi' = zi + 1 /\ pc' = "la_pageFunc"
               /\ UNCHANGED <<rp, rrsErr, listAllSet, trace>>
          ELSE \E ok \in BOOLEAN :
                 IF ok
                   THEN LET st == LA_recordSetsFunc(pages[rp + 1], 1, z, now,
                                    [set |-> listAllSet,
                                     trace |-> Append(trace,
                                                 EvListRecords(z.Id, rp + 1, TRUE))])
                        IN /\ listAllSet' = st.set
                           /\ trace' = st.trace
                           /\ rp' = rp + 1
                           /\ UNCHANGED <<pc, zi, rrsErr>>
                   ELSE /\ rrsErr' = Wrapf(ListResourceRecordSetsError(z.Id),
                                       [text |-> "couldn't describe route53 resources",
                                        account |-> opts.Account,
                                        region |-> opts.Region, zone |-> z.Id])
                        /\ trace' = Append(trace, EvListRecords(z.Id, rp + 1, FALSE))
                        /\ pc' = "la_return"
                        /\ UNCHANGED <<rp, zi, listAllSet>>
  /\ UNCHANGED <<provider, now, set, opts, zp, toDelete, changes, listError,
                 err, ret>>

\* the error ListAll would return if it did not test rrsErr
LA_result_IgnoresRrsErr(re, e, o) ==
  Wrapf(e, [text |-> "couldn't describe route53 instance profiles",
            account |-> o.Account, region |-> o.Region, zone |-> <<>>])

\* the error ListAll returns (the set returned is listAllSet)
LA_result(re, e, o) ==
  IF re # Nil THEN re
  ELSE Wrapf(e, [text |-> "couldn't describe route53 instance profiles",
                 account |-> o.Account, region |-> o.Region, zone |-> <<>>])

\* if rrsErr != nil { return set, rrsErr }; return set, errors.Wrapf(err, ...)
LA_return ==
  /\ pc = "la_return"
  /\ ret' = LA_result(rrsErr, err, opts)
  /\ pc' = "la_done"
  /\ UNCHANGED <<provider, now, set, opts, zp, zi, rp, toDelete, changes,
                 listError, rrsErr, err, listAllSet, trace>>

Next ==
  \/ Tick
  \/ MarkAndSweep
  \/ MS_ListHostedZonesPages
  \/ MS_pageFunc
  \/ route53ResourceRecordSetsForZone
  \/ MS_chunkLoop
  \/ MS_return
  \/ ListAll
  \/ LA_ListHostedZonesPages
  \/ LA_pageFunc
  \/ LA_ListResourceRecordSetsPages
  \/ LA_return

Spec == Init /\ [][Next]_vars

(***************************************************************************)
(* Vocabulary of the properties.                                           *)
(***************************************************************************)
MSpcs == {"ms_zones", "ms_pageFunc", "ms_records", "ms_chunks", "ms_return", "ms_done"}

LApcs == {"la_zones", "la_pageFunc", "la_records", "la_return", "la_done"}

\* the zones of the provider, and those carrying the allow-listed name
AllZones == Range(Flatten(hostedZones))

AllowListed == {z \in AllZones : z.Name = "test-cncf-aws.k8s.io."}

\* the record sets the provider holds for a zone
RecordsOf(id) == UNION {Range(recordSets[id][p]) : p \in 1..Len(recordSets[id])}

\* the record sets the provider may hold
ProviderRecords == {rrsApi, rrsEtcd, rrsWww, rrsCname, rrsUnrelated}

\* those of type "A" with a name matching one of the managed name patterns
PassingRecords ==
  {r \in ProviderRecords :
     /\ r.Type = <<"A">>
     /\ \E n \in 1..Len(managedNameRegexes) :
          MatchString(managedNameRegexes[n], r.Name)}

\* type "A" and a name matching one of the managed name patterns
PassesRecordFilter(r) == r \in PassingRecords

\* positions of the trace holding a call of the given kind
At(op) == {i \in 1..Len(trace) : trace[i].op = op}

\* a listing (of zones or of records) failed in the running call
ListingFailed ==
  \E i \in At("ListHostedZones") \cup At("ListResourceRecordSets") : ~trace[i].ok

\* the records of a zone for which Mark returned true in the running call
MarkedTrue(id) ==
  {trace[i].obj : i \in {j \in At("Mark") : trace[j].zone = id /\ trace[j].ok}}

\* the delete requests issued for a zone in the running call
Requests(id) == {i \in At("ChangeResourceRecordSets") : trace[i].zone = id}

\* the zones whose record listing was completed in the running call
FullyListed ==
  {z \in AllZones :
     \A p \in 1..Len(recordSets[z.Id]) :
       \E i \in At("ListResourceRecordSets") :
         trace[i].zone = z.Id /\ trace[i].page = p /\ trace[i].ok}

(***************************************************************************)
(* C1: in a MarkAndSweep pass with dry-run off and no listing failure,     *)
(* every record for which Mark returned true is contained in a delete      *)
(* request submitted for its zone in that pass; and when the record        *)
(* listing of a zone returns, toDelete holds exactly the records whose     *)
(* Mark returned true.                                                     *)
(***************************************************************************)
C1_MarkedAreSubmitted ==
  /\ (pc = "ms_done" /\ ~opts.DryRun /\ ret = Nil) =>
       \A z \in AllowListed : \A r \in MarkedTrue(z.Id) :
         \E i \in Requests(z.Id) : r \in Range(trace[i].chunk)
  /\ (pc = "ms_records" /\ rp = Len(recordSets[CurZone.Id])) =>
       {toDelete[i].obj : i \in 1..Len(toDelete)} = MarkedTrue(CurZone.Id)

(***************************************************************************)
(* C2: in a dry-run MarkAndSweep no delete request is issued, while Mark   *)
(* is called for every filter-passing record of every record page that was *)
(* listed; after a dry run without listing failure every filter-passing    *)
(* record of every allow-listed zone was marked.                           *)
(***************************************************************************)
C2_DryRun ==
  (pc \in MSpcs /\ opts.DryRun) =>
    /\ At("ChangeResourceRecordSets") = {}
    /\ \A i \in At("ListResourceRecordSets") : trace[i].ok =>
         \A r \in Range(recordSets[trace[i].zone][trace[i].page]) :
           PassesRecordFilter(r) =>
             \E j \in At("Mark") :
               j > i /\ trace[j].zone = trace[i].zone /\ trace[j].obj = r
    /\ (pc = "ms_done" /\ ret = Nil) =>
         \A z \in AllowListed : \A r \in RecordsOf(z.Id) :
           PassesRecordFilter(r) =>
             \E j \in At("Mark") : trace[j].zone = z.Id /\ trace[j].obj = r

\* a dry run that ended without error and in which Mark returned true
C2_Witness ==
  /\ pc = "ms_done" /\ opts.DryRun /\ ret = Nil
  /\ \E z \in AllowListed : MarkedTrue(z.Id) # {}

(***************************************************************************)
(* C3: a zone whose name is not exactly "test-cncf-aws.k8s.io." is never   *)
(* touched by MarkAndSweep or ListAll: no record listing, no Mark, no      *)
(* first-seen entry and no delete request for it; zoneIsManaged is true    *)
(* iff the name equals that literal.                                       *)
(***************************************************************************)
C3_UnmanagedZonesUntouched ==
  /\ \A z \in AllZones : zoneIsManaged(z) <=> z.Name = "test-cncf-aws.k8s.io."
  /\ ~zoneIsManaged(HostedZone(Z1, "test-cncf-aws.k8s.io"))
  /\ ~zoneIsManaged(HostedZone(Z1, "x.test-cncf-aws.k8s.io."))
  /\ ~zoneIsManaged(HostedZone(Z1, "TEST-CNCF-AWS.K8S.IO."))
  /\ ~zoneIsManaged(HostedZone(Z1, ""))
  /\ \A i \in 1..Len(trace) :
       trace[i].op # "ListHostedZones" =>
         \E z \in AllowListed : z.Id = trace[i].zone
  /\ \A z \in AllZones \ AllowListed : \A r \in RecordsOf(z.Id) :
       LET key == ResourceKey([zone |-> z, obj |-> r])
       IN key \notin DOMAIN set.firstSeen /\ key \notin DOMAIN listAllSet.firstSeen

\* a call ran to its end over a provider holding a zone that is not
\* allow-listed but has filter-passing records, and an allow-listed zone
\* whose records were listed
C3_Witness ==
  /\ pc \in {"ms_done", "la_done"} /\ ret = Nil
  /\ \E z \in AllZones \ AllowListed : \E r \in RecordsOf(z.Id) : PassesRecordFilter(r)
  /\ At("ListResourceRecordSets") # {}

(***************************************************************************)
(* C4: in MarkAndSweep a record whose type is not "A" or whose name        *)
(* matches none of the managed name patterns is never passed to Mark, gets *)
(* no tracker entry and is in no delete request.                           *)
(***************************************************************************)
C4_DenyByDefault ==
  /\ pc \in MSpcs =>
       /\ \A i \in At("Mark") : PassesRecordFilter(trace[i].obj)
       /\ \A i \in At("ChangeResourceRecordSets") :
            \A r \in Range(trace[i].chunk) : PassesRecordFilter(r)
       /\ \A i \in 1..Len(toDelete) : PassesRecordFilter(toDelete[i].obj)
       /\ \A i \in 1..Len(changes) : PassesRecordFilter(changes[i])
  /\ \A z \in AllZones : \A r \in RecordsOf(z.Id) :
       ~PassesRecordFilter(r) =>
         ResourceKey([zone |-> z, obj |-> r]) \notin DOMAIN set.firstSeen

\* a sweep (dry-run off) listed all pages of a zone holding a CNAME record, an
\* A record of an unrecognised name and a managed record, and marked
C4_Witness ==
  /\ pc = "ms_done" /\ ~opts.DryRun
  /\ \E z \in FullyListed :
       /\ rrsCname \in RecordsOf(z.Id)
       /\ \E r \in RecordsOf(z.Id) : r.Type = <<"A">> /\ ~PassesRecordFilter(r)
       /\ \E i \in At("Mark") : trace[i].zone = z.Id

(***************************************************************************)
(* C5: once the record listing of a zone fails during MarkAndSweep,        *)
(* nothing more is listed, marked or deleted and no further zone page is   *)
(* fetched (the failed listing is the last call of the pass), and          *)
(* MarkAndSweep returns that listing error.                                *)
(***************************************************************************)
C5_FailFast ==
  pc \in MSpcs =>
    \A i \in At("ListResourceRecordSets") : ~trace[i].ok =>
      /\ i = Len(trace)
      /\ pc \in {"ms_return", "ms_done"}
      /\ listError = ListResourceRecordSetsError(trace[i].zone)
      /\ pc = "ms_done" => ret = ListResourceRecordSetsError(trace[i].zone)

\* the record listing of the first zone failed while allow-listed zones
\* follow it on the same zone page and on a later zone page
C5_Witness ==
  /\ pc = "ms_done"
  /\ AllowListed = AllZones
  /\ \E i \in At("ListResourceRecordSets") : ~trace[i].ok /\ trace[i].zone = Z1
  /\ zp < Len(hostedZones)

C6_ErrorOnlyFromListing ==
  pc = "ms_done" =>
    /\ ret # Nil <=> ListingFailed
    /\ ret.call \in {"nil", "ListHostedZones", "ListResourceRecordSets"}

(***************************************************************************)
(* C7: with N records of a zone marked true in a pass (dry-run off, no     *)
(* listing failure), exactly ceil(N/1000) delete requests are issued for   *)
(* the zone, each with 1 to 1000 changes, N changes in total, every marked *)
(* record in exactly one request.                                          *)
(***************************************************************************)
C7_Chunking ==
  (pc = "ms_done" /\ ~opts.DryRun /\ ret = Nil) =>
    \A z \in AllowListed :
      LET N == Cardinality(MarkedTrue(z.Id))
          reqs == Requests(z.Id)
      IN /\ Cardinality(reqs) = (N + 999) \div 1000
         /\ \A i \in reqs : Len(trace[i].chunk) \in 1..1000
         /\ Cardinality({c \in reqs \X (1..1000) :
                           c[2] <= Len(trace[c[1]].chunk)}) = N
         /\ \A r \in MarkedTrue(z.Id) :
              Cardinality({i \in reqs : r \in Range(trace[i].chunk)}) = 1

(***************************************************************************)
(* C8: progress: after a MarkAndSweep pass with dry-run off in which no    *)
(* listing and no delete request failed, no record for which Mark returned *)
(* true in that pass is left in the provider (so that repeated passes      *)
(* remove every aged managed record once their requests succeed).          *)
(***************************************************************************)
C8_MarkedAreRemoved ==
  ( /\ pc = "ms_done" /\ ~opts.DryRun /\ ~ListingFailed
    /\ \A i \in At("ChangeResourceRecordSets") : trace[i].ok ) =>
    \A z \in AllowListed : MarkedTrue(z.Id) \cap RecordsOf(z.Id) = {}

(***************************************************************************)
(* C9: ListAll without listing failure returns a set whose first-seen keys *)
(* are exactly the resource keys of all record sets (of any type and name) *)
(* of the allow-listed zones, and a nil error.                             *)
(***************************************************************************)
C9_ListAllKeys ==
  (pc = "la_done" /\ ~ListingFailed) =>
    /\ DOMAIN listAllSet.firstSeen =
         UNION {{ARN([zone |-> z, obj |-> r]) : r \in RecordsOf(z.Id)} :
                  z \in AllowListed}
    /\ ret = Nil

\* ListAll ended without failure over an allow-listed zone holding a CNAME
\* record and an unrecognised name, next to a zone that is not allow-listed
C9_Witness ==
  /\ pc = "la_done" /\ ~ListingFailed
  /\ AllZones # AllowListed
  /\ \E z \in AllowListed : {rrsCname, rrsWww} \subseteq RecordsOf(z.Id)

(***************************************************************************)
(* C10: every error MarkAndSweep or ListAll returns is wrapped with the    *)
(* account and the region (and with the zone, for a record listing).       *)
(***************************************************************************)
C10_ErrorsWrapped ==
  (pc \in {"ms_done", "la_done"} /\ ret # Nil) =>
    /\ Len(ret.wrap) > 0
    /\ ret.wrap[1].account = opts.Account
    /\ ret.wrap[1].region = opts.Region
    /\ ret.call = "ListResourceRecordSets" => ret.wrap[1].zone = ret.zone

(***************************************************************************)
(* Vocabulary of the ordering properties.                                  *)
(***************************************************************************)
\* position of a zone in the iteration order of the hosted-zone listing
ZoneIdx(id) ==
  CHOOSE k \in 1..Len(Flatten(hostedZones)) : Flatten(hostedZones)[k].Id = id

\* the calls made to the provider (Mark and first-seen writes are local)
ProviderOps == {"ListHostedZones", "ListResourceRecordSets", "ChangeResourceRecordSets"}

ProviderCalls(tr) == SelectSeq(tr, LAMBDA e : e.op \in ProviderOps)

(***************************************************************************)
(* C11: MarkAndSweep handles the zones one after another in iteration      *)
(* order: all record listings, Mark calls and delete requests of a zone    *)
(* come before the first record listing of a later zone, and a zone is     *)
(* only begun when the allow-listed zones before it are fully listed;      *)
(* within a zone the record pages are fetched in order and no listing or   *)
(* Mark follows a delete request; the chunk loop starts only when all      *)
(* record pages of the zone are consumed; every step makes at most one     *)
(* provider call.                                                          *)
(***************************************************************************)
C11_StateOrdering ==
  pc \in MSpcs =>
    /\ \A i, j \in 1..Len(trace) :
         (i < j /\ trace[i].zone # <<>> /\ trace[j].zone # <<>>) =>
           /\ ZoneIdx(trace[i].zone) <= ZoneIdx(trace[j].zone)
           /\ (trace[i].zone = trace[j].zone
                 /\ trace[i].op = "ChangeResourceRecordSets") =>
                trace[j].op = "ChangeResourceRecordSets"
           /\ (trace[i].zone = trace[j].zone
                 /\ trace[i].op = "ListResourceRecordSets"
                 /\ trace[j].op = "ListResourceRecordSets") =>
                trace[j].page = trace[i].page + 1 + Cardinality(
                  {k \in At("ListResourceRecordSets") : i < k /\ k < j})
    /\ \A i \in 1..Len(trace) : trace[i].zone # <<>> =>
         \A z \in AllowListed :
           ZoneIdx(z.Id) < ZoneIdx(trace[i].zone) => z \in FullyListed
    /\ pc = "ms_chunks" => CurZone \in FullyListed
    /\ pc \in {"ms_records", "ms_chunks"} =>
         \A z \in AllowListed : ZoneIdx(z.Id) < ZoneIdx(CurZone.Id) => z \in FullyListed

\* a step of a running MarkAndSweep only extends the trace, by at most one
\* provider call
C11_OneCallPerStep ==
  pc \in MSpcs \ {"ms_done"} =>
    /\ Len(trace') >= Len(trace)
    /\ SubSeq(trace', 1, Len(trace)) = trace
    /\ Len(ProviderCalls(trace')) <= Len(ProviderCalls(trace)) + 1

C11_Sequential == []C11_StateOrdering /\ [][C11_OneCallPerStep]_vars

\* a pass without failure marked records of two zones, the first of which
\* has two pages of records
C11_Witness ==
  /\ pc = "ms_done" /\ ~opts.DryRun /\ ret = Nil
  /\ \E i, j \in At("Mark") :
       /\ i < j /\ trace[i].zone # trace[j].zone
       /\ Len(recordSets[trace[i].zone]) = 2

(***************************************************************************)
(* C12: no retries inside one MarkAndSweep call: no page of zones and no   *)
(* page of records of a zone is fetched twice, a failed listing is the     *)
(* last call of the pass, and no record is submitted for deletion twice    *)
(* (a chunk is never resubmitted, whether it failed or not).               *)
(***************************************************************************)
C12_NoRetries ==
  pc \in MSpcs =>
    /\ \A i, j \in At("ListHostedZones") \cup At("ListResourceRecordSets") :
         (i < j /\ trace[i].op = trace[j].op /\ trace[i].zone = trace[j].zone) =>
           trace[i].page # trace[j].page
    /\ \A i \in At("ListHostedZones") \cup At("ListResourceRecordSets") :
         ~trace[i].ok => i = Len(trace)
    /\ \A i, j \in At("ChangeResourceRecordSets") :
         (i < j /\ trace[i].zone = trace[j].zone) =>
           Range(trace[i].chunk) \cap Range(trace[j].chunk) = {}

\* a pass ended by the failure of the second record page of zone Z2, after
\* the records of zone Z1 were listed
C12_Witness ==
  /\ pc = "ms_done" /\ ~opts.DryRun
  /\ \E i \in At("ListResourceRecordSets") :
       ~trace[i].ok /\ trace[i].zone = Z2 /\ trace[i].page = 2
  /\ \E z \in AllowListed \cap FullyListed : z.Id = Z1

(***************************************************************************)
(* Resource keys: a second provider, whose zone ids, record types and      *)
(* record names are prefixes of one another or contain the separator, so   *)
(* that keys can only differ by the way ARN puts them together.            *)
(***************************************************************************)
\* "Z11"
Z11 == <<"Z","1","1">>

TypeAAAA == <<"A","A","A","A">>

\* "n."
NameN == <<"n",".">>

\* "A::n."
NameColon == <<"A",":",":","n",".">>

\* "AAAn."
NameAAAn == <<"A","A","A","n",".">>

\* "1::A::n."
NameOne == <<"1",":",":","A",":",":","n",".">>

KeyPagesA ==
  << <<ResourceRecordSet(TypeA, NameN), ResourceRecordSet(TypeAAAA, NameN),
       ResourceRecordSet(TypeA, NameColon)>>,
     <<rrsApi, ResourceRecordSet(TypeA, NameAAAn), ResourceRecordSet(TypeA, NameOne)>> >>

KeyPagesB ==
  << <<ResourceRecordSet(TypeA, NameColon), ResourceRecordSet(TypeAAAA, NameN),
       rrsApi, ResourceRecordSet(TypeA, NameN)>> >>

KeyInit ==
  /\ hostedZones \in
       { << <<HostedZone(Z1, ManagedZoneName), HostedZone(Z11, n)>> >> :
           n \in {ManagedZoneName, "x.test-cncf-aws.k8s.io."} }
  /\ recordSets \in
       { [id \in {Z1, Z11} |-> IF id = Z1 THEN l1 ELSE l2] :
           l1 \in {KeyPagesA, KeyPagesB}, l2 \in {KeyPagesA, KeyPagesB} }
  /\ now = 0
  /\ set = NewSet
  /\ pc = "idle"
  /\ opts = Options(FALSE)
  /\ zp = 0 /\ zi = 0 /\ rp = 0
  /\ toDelete = <<>> /\ changes = <<>>
  /\ listError = Nil /\ rrsErr = Nil /\ err = Nil /\ ret = Nil
  /\ listAllSet = NewSet
  /\ trace = <<>>

KeySpec == KeyInit /\ [][Next]_vars

\* "route53::" + zoneId + "::" + recordType + "::" + recordName
KeyString(id, type, name) ==
  <<"r","o","u","t","e","5","3",":",":">> \o id \o <<":",":">> \o type
    \o <<":",":">> \o name

\* the record sets of the provider, each with its zone
AllRecordSets ==
  UNION {{[zone |-> z, obj |-> r] : r \in RecordsOf(z.Id)} : z \in AllZones}

(***************************************************************************)
(* C13: the ResourceKey of a record set is "route53::" + zoneId + "::" +   *)
(* recordType + "::" + recordName and equals its ARN; two record sets that *)
(* differ in zone id, record type or record name have different keys, so   *)
(* the set ListAll returns has one first-seen entry per record set and no  *)
(* two Mark calls for different record sets use the same key.              *)
(***************************************************************************)
C13_KeyUnique ==
  /\ \A o \in AllRecordSets :
       /\ ResourceKey(o) = ARN(o)
       /\ ResourceKey(o) = KeyString(o.zone.Id, o.obj.Type, o.obj.Name)
  /\ \A o1, o2 \in AllRecordSets :
       ResourceKey(o1) = ResourceKey(o2) =>
         /\ o1.zone.Id = o2.zone.Id
         /\ o1.obj.Type = o2.obj.Type
         /\ o1.obj.Name = o2.obj.Name
  /\ (pc = "la_done" /\ ~ListingFailed) =>
       Cardinality(DOMAIN listAllSet.firstSeen) =
         Cardinality({<<o.zone.Id, o.obj.Type, o.obj.Name>> :
                        o \in {x \in AllRecordSets : x.zone \in AllowListed}})
  /\ \A i, j \in At("Mark") \cup At("firstSeen") :
       trace[i].key = trace[j].key =>
         trace[i].zone = trace[j].zone /\ trace[i].obj = trace[j].obj

\* ListAll ended without failure over two allow-listed zones whose ids are
\* prefixes of one another, holding records of the same name and different
\* types and a record whose name contains the separator
C13_Witness ==
  /\ pc = "la_done" /\ ~ListingFailed
  /\ Cardinality(AllowListed) = 2
  /\ \A z \in AllowListed :
       {ResourceRecordSet(TypeA, NameN), ResourceRecordSet(TypeAAAA, NameN),
        ResourceRecordSet(TypeA, NameColon)} \subseteq RecordsOf(z.Id)
  /\ Cardinality(DOMAIN listAllSet.firstSeen) >= 8

(***************************************************************************)
(* Vocabulary of the comparison of dry runs and real runs: the calls a     *)
(* pass makes apart from delete requests, as a function of the provider's  *)
(* contents alone.                                                         *)
(***************************************************************************)
RECURSIVE ConcatAll(_)
ConcatAll(ss) == IF ss = <<>> THEN <<>> ELSE Head(ss) \o ConcatAll(Tail(ss))

\* the Mark calls for a page of records
CanonMarks(z, records) ==
  LET passing == SelectSeq(records, PassesRecordFilter)
  IN [k \in 1..Len(passing) |-> EvMark([zone |-> z, obj |-> passing[k]], TRUE)]

\* the record listings and Mark calls for a zone
CanonZone(z) ==
  ConcatAll([p \in 1..Len(recordSets[z.Id]) |->
               <<EvListRecords(z.Id, p, TRUE)>> \o CanonMarks(z, recordSets[z.Id][p])])

\* the calls for a page of zones
CanonZonePage(p) ==
  <<EvListZones(p, TRUE)>> \o
    ConcatAll([k \in 1..Len(hostedZones[p]) |->
                 IF hostedZones[p][k].Name = "test-cncf-aws.k8s.io."
                   THEN CanonZone(hostedZones[p][k]) ELSE <<>>])

\* the listings and Mark calls of a complete pass
Canon == ConcatAll([p \in 1..Len(hostedZones) |-> CanonZonePage(p)])

\* the calls of the running pass apart from delete requests
LowTrace == SelectSeq(trace, LAMBDA e : e.op # "ChangeResourceRecordSets")

RECURSIVE MarksOutcome(_, _, _, _)
\* the tracker after the Mark calls i.. of evs at time t, and whether the
\* results of the calls are those of Mark
MarksOutcome(s, evs, i, t) ==
  IF i > Len(evs) THEN [set |-> s, agree |-> TRUE]
  ELSE LET m == Mark(s, evs[i].key, t)
           rest == MarksOutcome(m.set, evs, i + 1, t)
       IN [set |-> rest.set, agree |-> rest.agree /\ (evs[i].ok = m.result)]

(***************************************************************************)
(* C14: dry-run changes only mutations.  Whatever opts.DryRun is, the      *)
(* listings and Mark calls of a pass are the listings and Mark calls the   *)
(* provider's contents determine, up to the listing that failed; the       *)
(* tracker changes only by the Mark calls of a record page, each with the  *)
(* outcome Mark has on the tracker at that time; the error returned is     *)
(* that of the failed listing, or nil; opts is not changed; and a dry run  *)
(* makes no other call.  So a dry run and a real run over the same         *)
(* provider contents, failures, times and tracker make the same listings   *)
(* and Mark calls, leave the same tracker and return the same error.       *)
(***************************************************************************)
C14_SameCalls ==
  pc \in MSpcs =>
    LET lt == LowTrace
        canon == Canon
        failed == Len(lt) > 0 /\ lt[Len(lt)].op # "Mark" /\ ~lt[Len(lt)].ok
    IN /\ Len(lt) <= Len(canon)
       /\ \A i \in 1..Len(lt) :
            /\ [lt[i] EXCEPT !.ok = TRUE] = canon[i]
            /\ (lt[i].op # "Mark" /\ ~lt[i].ok) => i = Len(lt)
       /\ opts.DryRun => lt = trace
       /\ pc = "ms_done" =>
            IF failed
              THEN /\ ret # Nil
                   /\ ret.call = lt[Len(lt)].op
                   /\ ret.zone = lt[Len(lt)].zone
              ELSE ret = Nil /\ Len(lt) = Len(canon)

\* a step of a running pass changes the tracker exactly by the Mark calls it
\* adds to the trace, and leaves opts alone
C14_SameTracker ==
  pc \in MSpcs \ {"ms_done"} =>
    LET new == SubSeq(trace', Len(trace) + 1, Len(trace'))
        marks == SelectSeq(new, LAMBDA e : e.op = "Mark")
        out == MarksOutcome(set, marks, 1, now)
    IN set' = out.set /\ out.agree /\ opts' = opts

C14_DryRunOnlyMutations == []C14_SameCalls /\ [][C14_SameTracker]_vars

\* a real run that marked a record true and was ended by a listing failure
C14_Witness ==
  /\ pc = "ms_done" /\ ~opts.DryRun /\ ret # Nil
  /\ \E z \in AllowListed : MarkedTrue(z.Id) # {}
  /\ Len(LowTrace) < Len(Canon)

(***************************************************************************)
(* C15: ListAll is at least as permissive as the sweep: over the same      *)
(* provider contents and without listing failure, the keys MarkAndSweep    *)
(* passes to Mark (the entries of the tracker) are among the keys ListAll  *)
(* records; ListAll calls no Mark, issues no delete request and leaves the *)
(* tracker and the provider as they are.                                   *)
(***************************************************************************)
C15_State ==
  /\ pc \in LApcs =>
       At("Mark") = {} /\ At("ChangeResourceRecordSets") = {}
  /\ (pc = "la_done" /\ ~ListingFailed) =>
       DOMAIN set.firstSeen \subseteq DOMAIN listAllSet.firstSeen
  /\ pc \in MSpcs =>
       {trace[i].key : i \in At("Mark")} \subseteq
         {ResourceKey(o) : o \in {x \in AllRecordSets : x.zone \in AllowListed}}

\* a step of ListAll changes neither the tracker nor the provider
C15_ListAllReadOnly == pc' \in LApcs => (set' = set /\ recordSets' = recordSets)

C15_ListAllMorePermissive == []C15_State /\ [][C15_ListAllReadOnly]_vars

\* ListAll ended without failure after sweeps had marked records, and it
\* recorded keys the sweeps never marked
C15_Witness ==
  /\ pc = "la_done" /\ ~ListingFailed
  /\ DOMAIN set.firstSeen # {}
  /\ DOMAIN listAllSet.firstSeen # DOMAIN set.firstSeen
  /\ \A z \in AllowListed : \A r \in RecordsOf(z.Id) :
       PassesRecordFilter(r) =>
         ResourceKey([zone |-> z, obj |-> r]) \in DOMAIN set.firstSeen

(***************************************************************************)
(* C16: when the record listing of a zone fails in MarkAndSweep, possibly  *)
(* after pages of it were delivered, no delete request is issued for that  *)
(* zone and the candidate list is dropped, while the Mark calls already    *)
(* made stay in the tracker: every key marked in the pass, and every       *)
(* candidate record of the pages delivered before the failure, still has   *)
(* its first-seen entry.                                                   *)
(***************************************************************************)
C16_PartialListingDiscarded ==
  pc \in MSpcs =>
    \A i \in At("ListResourceRecordSets") :
      ~trace[i].ok =>
        /\ Requests(trace[i].zone) = {}
        /\ toDelete = <<>> /\ changes = <<>>
        /\ \A j \in At("Mark") : trace[j].key \in DOMAIN set.firstSeen
        /\ \A z \in AllZones :
             z.Id = trace[i].zone =>
               \A p \in 1..(trace[i].page - 1) :
                 \A r \in Range(recordSets[z.Id][p]) :
                   PassesRecordFilter(r) =>
                     ARNPrefix \o z.Id \o ARNSep \o r.Type \o ARNSep \o r.Name
                       \in DOMAIN set.firstSeen

\* a pass ended on a record listing that failed on a later page of a zone
\* for which Mark had been called on the pages before
C16_Witness ==
  /\ pc = "ms_done"
  /\ \E i \in At("ListResourceRecordSets") :
       /\ ~trace[i].ok /\ trace[i].page > 1
       /\ \E j \in At("Mark") : j < i /\ trace[j].zone = trace[i].zone

(***************************************************************************)
(* C17: when the zone enumeration of MarkAndSweep fails on some page,      *)
(* MarkAndSweep returns a non-nil error, and every allow-listed zone of    *)
(* the pages delivered before was processed to its end before the failure: *)
(* all its record pages listed, Mark called for each of its candidate      *)
(* records, and no change of it left unsubmitted.  A record-listing error  *)
(* takes precedence over a zone-listing error in the value returned, and   *)
(* nil is returned exactly when no listing failed.                         *)
(***************************************************************************)
C17_ZoneListingFailure ==
  pc \in MSpcs =>
    /\ \A i \in At("ListHostedZones") :
         ~trace[i].ok =>
           /\ i = Len(trace)
           /\ changes = <<>> /\ listError = Nil
           /\ pc = "ms_done" => ret = ListHostedZonesError
           /\ \A p \in 1..(trace[i].page - 1) :
                \A z \in Range(hostedZones[p]) :
                  z.Name = "test-cncf-aws.k8s.io." =>
                    /\ z \in FullyListed
                    /\ \A r \in RecordsOf(z.Id) :
                         PassesRecordFilter(r) =>
                           \E j \in At("Mark") :
                             trace[j].zone = z.Id /\ trace[j].obj = r
    /\ pc = "ms_done" =>
         /\ ret = (IF listError # Nil THEN listError ELSE err)
         /\ (ret = Nil) <=> ~ListingFailed

\* a pass with dry-run off ended on a zone listing that failed on its second
\* page, after Mark was called for records of a zone of the first page
C17_Witness ==
  /\ pc = "ms_done" /\ ~opts.DryRun /\ ret # Nil
  /\ \E i \in At("ListHostedZones") :
       /\ ~trace[i].ok /\ trace[i].page = 2
       /\ \E j \in At("Mark") : j < i

\* the record sets on the pages a call was given by successful fetches
DeliveredRecordSets ==
  UNION {{[zone |-> z, obj |-> r] :
            r \in UNION {Range(recordSets[z.Id][trace[i].page]) :
                           i \in {j \in At("ListResourceRecordSets") :
                                    trace[j].zone = z.Id /\ trace[j].ok}}} :
         z \in AllZones}

(***************************************************************************)
(* C18: when listing the records of an allow-listed zone fails in ListAll, *)
(* ListAll stops (nothing is listed after the failure) and returns the set *)
(* holding exactly the keys of the record sets on the pages delivered      *)
(* before the failure, together with a non-nil error; ListAll returns a    *)
(* nil error exactly when no zone listing and no record listing failed.    *)
(***************************************************************************)
C18_ListAllFailure ==
  pc \in LApcs =>
    /\ \A i \in At("ListResourceRecordSets") :
         ~trace[i].ok =>
           /\ i = Len(trace)
           /\ pc \in {"la_return", "la_done"}
           /\ pc = "la_done" =>
                ret # Nil /\ ret.call = "ListResourceRecordSets"
                          /\ ret.zone = trace[i].zone
    /\ pc = "la_done" =>
         /\ DOMAIN listAllSet.firstSeen =
              {ARNPrefix \o o.zone.Id \o ARNSep \o o.obj.Type \o ARNSep
                 \o o.obj.Name : o \in DeliveredRecordSets}
         /\ (ret = Nil) <=> ~ListingFailed

\* ListAll ended on a failed record listing after it had recorded record
\* sets, with a zone or a page of records left unlisted
C18_Witness ==
  /\ pc = "la_done" /\ ret # Nil
  /\ \E i \in At("ListResourceRecordSets") :
       /\ ~trace[i].ok /\ trace[i].page > 1
  /\ DOMAIN listAllSet.firstSeen # {}
  /\ DeliveredRecordSets # {x \in AllRecordSets : x.zone \in AllowListed}

=============================================================================
